---- MODULE Spec2Model ----
(***************************************************************************)
(* Model of atomate2/vasp/file.py: copy_vasp_outputs and                   *)
(* get_largest_relax_extension.                                            *)
(*                                                                         *)
(* A file name is a sequence of tokens, each token standing for a fixed    *)
(* piece of text ("INCAR", ".relax", "2", ".gz", ...).  No token is a      *)
(* textual prefix of another, so a name is a textual prefix of another     *)
(* exactly when it is a prefix as a token sequence, and only the tokens    *)
(* ".relax" and "_relax" contain the text "relax".  A glob pattern is a    *)
(* name that may contain the token "*".  A directory is a function from    *)
(* the names of its files to their contents; a content is a record of the  *)
(* data it carries (named after the file it first came from) and the       *)
(* number z of gzip layers around that data.                               *)
(***************************************************************************)
EXTENDS Integers, Sequences, FiniteSets, TLC

VARIABLES
    src,        \* the source directory (src_dir on src_host); never written
    dst,        \* the destination directory (the current directory)
    dstStart,   \* the destination as it was when the current call started
    dstPrev,    \* the destination as it was when the previous call started
    add,        \* argument additional_vasp_files
    c2p,        \* argument contcar_to_poscar
    rev,        \* whether the file system lists directory entries reversed
    pc,         \* the statement copy_vasp_outputs executes next
    relax_ext,  \* local variable relax_ext
    err,        \* the exception the current call raised, "" when none
    trace,      \* the steps the current call has performed, in order
    run         \* the number of the current call

vars == <<src, dst, dstStart, dstPrev, add, c2p, rev, pc, relax_ext, err, trace, run>>

\* How many calls in succession a behaviour makes.
MaxRuns == 2

-----------------------------------------------------------------------------
(* Text *)

Star == "*"
RelaxTok == ".relax"
GzTok == ".gz"

INCAR == <<"INCAR">>
OUTCAR == <<"OUTCAR">>
CONTCAR == <<"CONTCAR">>
VASPRUN == <<"vasprun.xml">>
POTCAR == <<"POTCAR">>
POTCAR_SPEC == <<"POTCAR", ".spec">>
KPOINTS == <<"KPOINTS">>
POSCAR == <<"POSCAR">>
WAVECAR == <<"WAVECAR">>

DigitChars == <<"0", "1", "2", "3", "4", "5", "6", "7", "8", "9">>

\* \d of the regular expression
IsDigit(t) == \E i \in 1..Len(DigitChars) : DigitChars[i] = t

DigitVal(t) == (CHOOSE i \in 1..Len(DigitChars) : DigitChars[i] = t) - 1

\* int(x) of a string of digits
RECURSIVE int(_)
int(ds) ==
    IF Len(ds) = 0 THEN 0
    ELSE 10 * int(SubSeq(ds, 1, Len(ds) - 1)) + DigitVal(ds[Len(ds)])

\* The tokens the regular expression ".relax" matches: its dot is not
\* escaped, so any one character followed by the text "relax".
AnyCharRelax(t) == t \in {".relax", "_relax"}

SetMin(S) == CHOOSE x \in S : \A y \in S : x <= y
SetMax(S) == CHOOSE x \in S : \A y \in S : y <= x

\* The longest run of digits of name that starts at position i.
DigitRun(name, i) ==
    LET j == SetMax({k \in i..Len(name) : \A m \in i..k : IsDigit(name[m])})
    IN  SubSeq(name, i, j)

None == <<>>

\* re.search(r".relax(\d+)", name): group 1 of the leftmost match, None when
\* nothing matches.
re_search(name) ==
    LET starts == {i \in 1..(Len(name) - 1) :
                       AnyCharRelax(name[i]) /\ IsDigit(name[i + 1])}
    IN  IF starts = {} THEN None ELSE DigitRun(name, SetMin(starts) + 1)

\* Python's order on strings, on strings of digits.
RECURSIVE StrLess(_, _)
StrLess(a, b) ==
    IF Len(b) = 0 THEN FALSE
    ELSE IF Len(a) = 0 THEN TRUE
    ELSE IF Head(a) # Head(b) THEN DigitVal(Head(a)) < DigitVal(Head(b))
    ELSE StrLess(Tail(a), Tail(b))

\* max(numbers) without the key: the first element no other is greater than
\* as a string.
max_lexical(numbers) ==
    LET i == SetMin({k \in 1..Len(numbers) :
                        \A m \in 1..Len(numbers) : ~StrLess(numbers[k], numbers[m])})
    IN  numbers[i]

\* max(numbers, key=lambda x: int(x)): the first element whose int is largest.
max_relax(numbers) ==
    LET i == SetMin({k \in 1..Len(numbers) :
                        \A m \in 1..Len(numbers) : int(numbers[m]) <= int(numbers[k])})
    IN  numbers[i]

\* Whether glob pattern p matches name n.
RECURSIVE GlobMatch(_, _)
GlobMatch(p, n) ==
    IF Len(p) = 0 THEN Len(n) = 0
    ELSE IF Head(p) = Star
         THEN GlobMatch(Tail(p), n) \/ (Len(n) > 0 /\ GlobMatch(p, Tail(n)))
         ELSE Len(n) > 0 /\ Head(n) = Head(p) /\ GlobMatch(Tail(p), Tail(n))

IsPrefix(a, b) == Len(a) <= Len(b) /\ SubSeq(b, 1, Len(a)) = a

\* s.replace(old, new) for a nonempty old
RECURSIVE Replace(_, _, _)
Replace(s, old, new) ==
    IF Len(s) = 0 THEN <<>>
    ELSE IF IsPrefix(old, s)
         THEN new \o Replace(SubSeq(s, Len(old) + 1, Len(s)), old, new)
         ELSE <<Head(s)>> \o Replace(Tail(s), old, new)

-----------------------------------------------------------------------------
(* Directories and the file client *)

EmptyDir == [n \in {} |-> 0]

Names(d) == DOMAIN d

\* d with file n holding content c
Put(d, n, c) == [m \in DOMAIN d \cup {n} |-> IF m = n THEN c ELSE d[m]]

\* d without file n
Remove(d, n) == [m \in DOMAIN d \ {n} |-> d[m]]

RECURSIVE SetToSeq(_)
SetToSeq(S) ==
    IF S = {} THEN <<>>
    ELSE LET x == CHOOSE x \in S : TRUE IN <<x>> \o SetToSeq(S \ {x})

Reverse(s) == [i \in 1..Len(s) |-> s[Len(s) + 1 - i]]

\* file_client.glob(directory / pattern): the matching entries of d, in the
\* order the file system lists them.
glob(d, pattern, reversed) ==
    LET l == SetToSeq({n \in Names(d) : GlobMatch(pattern, n)})
    IN  IF reversed THEN Reverse(l) ELSE l

\* What gunzip leaves of a content: one gzip layer less.
decompress(c) == [c EXCEPT !.z = c.z - 1]

\* copy_files(src_dir, include_files=..., allow_missing=...): the patterns are
\* taken in order and every match is copied under its own name, replacing a
\* file of that name; a pattern without a match raises unless allow_missing.
RECURSIVE copy_files(_, _, _, _)
copy_files(from, to, include_files, allow_missing) ==
    IF Len(include_files) = 0 THEN [dir |-> to, ok |-> TRUE]
    ELSE LET found == {n \in Names(from) : GlobMatch(Head(include_files), n)}
             copied == [m \in Names(to) \cup found |->
                           IF m \in found THEN from[m] ELSE to[m]]
         IN  IF found = {} /\ ~allow_missing
             THEN [dir |-> to, ok |-> FALSE]
             ELSE copy_files(from, copied, Tail(include_files), allow_missing)

\* Gunzip of every file of d that matches pattern p and is gzipped: the file
\* loses its ".gz" and one gzip layer, replacing a file of the new name.
GunzipPattern(d, p) ==
    LET gz == {n \in Names(d) : GlobMatch(p, n) /\ n[Len(n)] = GzTok}
        out == {SubSeq(n, 1, Len(n) - 1) : n \in gz}
    IN  [m \in (Names(d) \ gz) \cup out |->
            IF m \in out THEN decompress(d[m \o <<GzTok>>]) ELSE d[m]]

\* gunzip_files(include_files=..., allow_missing=True)
RECURSIVE gunzip_files(_, _)
gunzip_files(d, include_files) ==
    IF Len(include_files) = 0 THEN d
    ELSE gunzip_files(GunzipPattern(d, Head(include_files)), Tail(include_files))

\* rename_files(files, allow_missing=...): the pairs are taken in order; a
\* file that exists moves to its new name, replacing a file of that name; a
\* file that does not exist is skipped, or raises unless allow_missing.
RECURSIVE rename_files(_, _, _)
rename_files(d, files, allow_missing) ==
    IF Len(files) = 0 THEN [dir |-> d, ok |-> TRUE]
    ELSE LET old == Head(files)[1]
             new == Head(files)[2]
         IN  IF old \in Names(d)
             THEN rename_files(Put(Remove(d, old), new, d[old]), Tail(files),
                               allow_missing)
             ELSE IF allow_missing
                  THEN rename_files(d, Tail(files), allow_missing)
                  ELSE [dir |-> d, ok |-> FALSE]

-----------------------------------------------------------------------------
(* get_largest_relax_extension *)

RelaxPattern == <<Star, RelaxTok, Star>>

\* The value returned, or ok = FALSE when .group(1) is called on None.
get_largest_relax_extension(directory, reversed) ==
    LET relax_files == glob(directory, RelaxPattern, reversed)
        numbers == [i \in 1..Len(relax_files) |-> re_search(relax_files[i])]
    IN  IF Len(relax_files) = 0 THEN [ok |-> TRUE, ext |-> <<>>]
        ELSE IF \E i \in 1..Len(numbers) : numbers[i] = None
             THEN [ok |-> FALSE, ext |-> <<>>]
             ELSE [ok |-> TRUE, ext |-> <<RelaxTok>> \o max_relax(numbers)]

-----------------------------------------------------------------------------
(* copy_vasp_outputs *)

RequiredBase == <<INCAR, OUTCAR, CONTCAR, VASPRUN>>

OptionalBase == <<POTCAR, POTCAR_SPEC, KPOINTS>>

\* [f + relax_ext + "*" for f in files]
WithExt(files, ext) == [i \in 1..Len(files) |-> files[i] \o ext \o <<Star>>]

required_files(additional, ext) == WithExt(RequiredBase \o additional, ext)

optional_files(ext) == WithExt(OptionalBase, ext)

\* The copy of the optional files made strict.
OptionalAllowMissing_Strict == FALSE

\* allow_missing of the copy of the optional files
OptionalAllowMissing == TRUE

PotcarPattern == <<"POTCAR", Star>>

\* The glob of the POTCAR check, made in the current directory.
PotcarFound(d) == {n \in Names(d) : GlobMatch(PotcarPattern, n)}

\* include_files of gunzip_files
gunzip_include(additional, ext) == required_files(additional, ext) \o optional_files(ext)

\* The rename map built from the required files alone.
relax_rename_map_RequiredOnly(additional, ext) ==
    LET all_files == required_files(additional, ext)
    IN  [i \in 1..Len(all_files) |->
            <<Replace(all_files[i], <<Star>>, <<>>),
              Replace(all_files[i], ext \o <<Star>>, <<>>)>>]

\* {k.replace("*", ""): k.replace(relax_ext + "*", "") for k in all_files}
relax_rename_map(additional, ext) ==
    LET all_files == optional_files(ext) \o required_files(additional, ext)
    IN  [i \in 1..Len(all_files) |->
            <<Replace(all_files[i], <<Star>>, <<>>),
              Replace(all_files[i], ext \o <<Star>>, <<>>)>>]

\* The rename written the wrong way round.
ContcarMap_Reversed == << <<POSCAR, CONTCAR>> >>

ContcarMap == << <<CONTCAR, POSCAR>> >>

\* The relax rename placed before gunzip.
StepOrder_RenameBeforeGunzip ==
    <<"resolve", "copy_required", "copy_optional", "check_potcar",
      "rename_relax", "gunzip", "contcar_to_poscar">>

\* The POTCAR check placed before the copy of the optional files.
StepOrder_CheckBeforeOptional ==
    <<"resolve", "copy_required", "check_potcar", "copy_optional", "gunzip",
      "rename_relax", "contcar_to_poscar">>

\* The POTCAR check placed after gunzip.
StepOrder_CheckAfterGunzip ==
    <<"resolve", "copy_required", "copy_optional", "gunzip", "check_potcar",
      "rename_relax", "contcar_to_poscar">>

\* The statements of copy_vasp_outputs, in the order of the text.
StepOrder ==
    <<"resolve", "copy_required", "copy_optional", "check_potcar", "gunzip",
      "rename_relax", "contcar_to_poscar">>

\* Whether the statement is executed: the two renames sit under an if.
Executes(step, ext, flag) ==
    CASE step = "rename_relax" -> ext # <<>>
      [] step = "contcar_to_poscar" -> flag
      [] OTHER -> TRUE

\* The statement executed after step, "done" when the function returns.
NextStep(step, ext, flag) ==
    LET i == CHOOSE k \in 1..Len(StepOrder) : StepOrder[k] = step
        later == {k \in (i + 1)..Len(StepOrder) : Executes(StepOrder[k], ext, flag)}
    IN  IF later = {} THEN "done" ELSE StepOrder[SetMin(later)]

-----------------------------------------------------------------------------
(* The directories and arguments a call is made with *)

SrcBases == {INCAR, OUTCAR, CONTCAR, VASPRUN, POTCAR, POTCAR_SPEC, KPOINTS, WAVECAR}

\* The relaxation stages a source directory holds files of; none when the
\* files carry no suffix.
StageSets ==
    { {}, {<<"2">>}, {<<"1">>, <<"2">>}, {<<"2">>, <<"1", "0">>} }

Staged(base, stage, gz) ==
    base \o (IF stage = <<>> THEN <<>> ELSE <<RelaxTok>> \o stage)
         \o (IF gz THEN <<GzTok>> ELSE <<>>)

TopStage(stages) ==
    IF stages = {} THEN <<>>
    ELSE CHOOSE s \in stages : \A t \in stages : int(t) <= int(s)

\* The files of the last stage that may be absent.
MissingSets ==
    {{}} \cup {{b} : b \in SrcBases}
         \cup {{POTCAR, POTCAR_SPEC}, {KPOINTS, WAVECAR}}

\* Other entries a source directory may hold.
ExtraSets ==
    { {},
      {<<"notes", RelaxTok, "ed">>},
      {<<"notes", "_relax", "3", RelaxTok, "ed">>},
      {<<"OUTCAR", "_relax", "9", RelaxTok, "1">>},
      {<<"KPOINTS", RelaxTok, "0", "2">>} }

SrcNames(stages, gz, missing, extra) ==
    {Staged(b, TopStage(stages), gz) : b \in SrcBases \ missing}
        \cup {Staged(b, s, FALSE) : b \in SrcBases, s \in stages \ {TopStage(stages)}}
        \cup extra

Layers(n) == IF n[Len(n)] = GzTok THEN 1 ELSE 0

SrcDir(names) == [n \in names |-> [data |-> n, z |-> Layers(n)]]

\* Files the destination holds before the first call.
StaleDir(names) == [n \in names |-> [data |-> <<"stale">> \o n, z |-> Layers(n)]]

StaleSets ==
    { {},
      {POTCAR},
      {CONTCAR \o <<GzTok>>, CONTCAR \o <<RelaxTok, "2", GzTok>>},
      {INCAR, POSCAR, OUTCAR \o <<RelaxTok, "2">>} }

AdditionalSets == { <<>>, <<WAVECAR>> }

-----------------------------------------------------------------------------
(* The state machine *)

Init ==
    /\ \E stages \in StageSets, gz \in BOOLEAN, missing \in MissingSets,
          extra \in ExtraSets :
            src = SrcDir(SrcNames(stages, gz, missing, extra))
    /\ \E stale \in StaleSets : dst = StaleDir(stale)
    /\ dstStart = dst
    /\ dstPrev = dst
    /\ add \in AdditionalSets
    /\ c2p \in BOOLEAN
    /\ rev \in BOOLEAN
    /\ pc = StepOrder[1]
    /\ relax_ext = <<>>
    /\ err = ""
    /\ trace = <<>>
    /\ run = 1

Args == <<src, add, c2p, rev, run, dstStart, dstPrev>>

\* The step returns normally.
Proceed(step, ext) ==
    /\ pc' = NextStep(step, ext, c2p)
    /\ trace' = Append(trace, step)
    /\ err' = ""

\* The step raises e.
Raise(step, e) ==
    /\ pc' = "failed"
    /\ trace' = Append(trace, step)
    /\ err' = e

\* relax_ext = get_largest_relax_extension(src_dir, src_host)
Resolve ==
    /\ pc = "resolve"
    /\ LET r == get_largest_relax_extension(src, rev)
       IN  IF r.ok
           THEN relax_ext' = r.ext /\ Proceed("resolve", r.ext)
           ELSE relax_ext' = relax_ext /\ Raise("resolve", "AttributeError")
    /\ UNCHANGED <<dst, Args>>

\* copy_files(src_dir, include_files=required_files)
CopyRequired ==
    /\ pc = "copy_required"
    /\ LET r == copy_files(src, dst, required_files(add, relax_ext), FALSE)
       IN  /\ dst' = r.dir
           /\ IF r.ok THEN Proceed("copy_required", relax_ext)
                      ELSE Raise("copy_required", "CopyError")
    /\ UNCHANGED <<relax_ext, Args>>

\* copy_files(src_dir, include_files=optional_files, allow_missing=True)
CopyOptional ==
    /\ pc = "copy_optional"
    /\ LET r == copy_files(src, dst, optional_files(relax_ext), OptionalAllowMissing)
       IN  /\ dst' = r.dir
           /\ IF r.ok THEN Proceed("copy_optional", relax_ext)
                      ELSE Raise("copy_optional", "CopyError")
    /\ UNCHANGED <<relax_ext, Args>>

\* if len(file_client.glob("POTCAR*")) == 0: raise FileNotFoundError(...)
CheckPotcar ==
    /\ pc = "check_potcar"
    /\ IF PotcarFound(dst) = {}
       THEN Raise("check_potcar", "MissingPotcar")
       ELSE Proceed("check_potcar", relax_ext)
    /\ UNCHANGED <<dst, relax_ext, Args>>

\* gunzip_files(include_files=required_files + optional_files, allow_missing=True)
Gunzip ==
    /\ pc = "gunzip"
    /\ dst' = gunzip_files(dst, gunzip_include(add, relax_ext))
    /\ Proceed("gunzip", relax_ext)
    /\ UNCHANGED <<relax_ext, Args>>

\* if relax_ext: rename_files(files, allow_missing=True)
RenameRelax ==
    /\ pc = "rename_relax"
    /\ dst' = rename_files(dst, relax_rename_map(add, relax_ext), TRUE).dir
    /\ Proceed("rename_relax", relax_ext)
    /\ UNCHANGED <<relax_ext, Args>>

\* if contcar_to_poscar: rename_files({"CONTCAR": "POSCAR"})
ContcarToPoscar ==
    /\ pc = "contcar_to_poscar"
    /\ LET r == rename_files(dst, ContcarMap, FALSE)
       IN  /\ dst' = r.dir
           /\ IF r.ok THEN Proceed("contcar_to_poscar", relax_ext)
                      ELSE Raise("contcar_to_poscar", "RenameError")
    /\ UNCHANGED <<relax_ext, Args>>

Terminal == pc \in {"done", "failed"}

\* The caller makes the same call again: same arguments, same source, and
\* the destination as the previous call left it.
Rerun ==
    /\ Terminal
    /\ run < MaxRuns
    /\ run' = run + 1
    /\ dstStart' = dst
    /\ dstPrev' = dstStart
    /\ pc' = StepOrder[1]
    /\ relax_ext' = <<>>
    /\ err' = ""
    /\ trace' = <<>>
    /\ UNCHANGED <<src, dst, add, c2p, rev>>

Next ==
    \/ Resolve
    \/ CopyRequired
    \/ CopyOptional
    \/ CheckPotcar
    \/ Gunzip
    \/ RenameRelax
    \/ ContcarToPoscar
    \/ Rerun

Spec == Init /\ [][Next]_vars

-----------------------------------------------------------------------------
(* Vocabulary of the properties *)

\* The resolver has been called in this call and has returned a value.
Resolved == Len(trace) >= 1 /\ err # "AttributeError"

\* The source holds file base under the resolved extension, plain or gzipped.
Has(base) ==
    \/ base \o relax_ext \in Names(src)
    \/ base \o relax_ext \o <<GzTok>> \in Names(src)

RequiredFour == {INCAR, OUTCAR, CONTCAR, VASPRUN}

Additional == {add[i] : i \in 1..Len(add)}

\* The entries of the source whose name contains ".relax".
RelaxEntries == {n \in Names(src) : \E i \in 1..Len(n) : n[i] = RelaxTok}

\* The integers that directly follow a ".relax" in name n.
IntegersAfterRelax(n) ==
    {int(DigitRun(n, i + 1)) :
        i \in {k \in 1..(Len(n) - 1) : n[k] = RelaxTok /\ IsDigit(n[k + 1])}}

LargestInteger == SetMax(UNION {IntegersAfterRelax(n) : n \in RelaxEntries})

\* The files of the source that the patterns of the call match.
Matched ==
    LET patterns == required_files(add, relax_ext) \o optional_files(relax_ext)
    IN  {n \in Names(src) : \E i \in 1..Len(patterns) : GlobMatch(patterns[i], n)}

\* The destination of the start of the call with every matched file copied in.
CopiedImage ==
    [n \in Names(dstStart) \cup Matched |->
        IF n \in Matched THEN src[n] ELSE dstStart[n]]

ContainsExt(n) ==
    \E i \in 1..Len(n) : IsPrefix(relax_ext, SubSeq(n, i, Len(n)))

EndsInGz(n) == n[Len(n)] = GzTok

-----------------------------------------------------------------------------
(* C1 *)

\* C1: whenever the resolver has returned on a listing whose matching entries
\* all carry an integer directly after ".relax", its value is "" if no entry
\* matches "*.relax*" and otherwise ".relax" followed by a numeral of the
\* largest such integer, whatever the order of the listing.  (The numeral is
\* compared by value, so that ".relax02" counts as ".relax2".)
C1_ReturnsLargestExtension ==
    (Len(trace) >= 1 /\ \A n \in RelaxEntries : IntegersAfterRelax(n) # {})
        => /\ Resolved
           /\ IF RelaxEntries = {} THEN relax_ext = <<>>
              ELSE /\ Len(relax_ext) >= 2
                   /\ relax_ext[1] = RelaxTok
                   /\ \A i \in 2..Len(relax_ext) : IsDigit(relax_ext[i])
                   /\ int(Tail(relax_ext)) = LargestInteger

-----------------------------------------------------------------------------
(* C10 *)

\* C10: if some entry of the source matches "*.relax*" and has no integer
\* directly after ".relax", the resolver raises, and the call has failed in
\* the resolver with the destination as it was when the call started.
C10_MalformedEntryFails ==
    (Len(trace) >= 1 /\ \E n \in RelaxEntries : IntegersAfterRelax(n) = {})
        => /\ pc = "failed"
           /\ err = "AttributeError"
           /\ trace = <<"resolve">>
           /\ dst = dstStart

-----------------------------------------------------------------------------
(* C2 *)

-----------------------------------------------------------------------------
(* C3 *)

\* C3: a call on a source that has every required file (those of
\* additional_vasp_files included) but neither POTCAR nor POTCAR.spec ends in
\* the missing-POTCAR error, raised by the POTCAR check, whatever the
\* destination held.
C3_MissingPotcarRaises ==
    (/\ Terminal
     /\ Resolved
     /\ \A b \in RequiredFour \cup Additional : Has(b)
     /\ ~Has(POTCAR)
     /\ ~Has(POTCAR_SPEC))
        => /\ pc = "failed"
           /\ err = "MissingPotcar"
           /\ trace[Len(trace)] = "check_potcar"

-----------------------------------------------------------------------------
(* C4 *)

\* The content of the source's CONTCAR under the resolved extension, gunzipped
\* when the source holds it gzipped.
SourceContcar ==
    IF CONTCAR \o relax_ext \in Names(src)
    THEN src[CONTCAR \o relax_ext]
    ELSE decompress(src[CONTCAR \o relax_ext \o <<GzTok>>])

-----------------------------------------------------------------------------
(* C5 *)

\* The call resolved a relax extension and every file of the source that
\* carries it is gzipped.
SuffixedAndGzipped ==
    /\ relax_ext # <<>>
    /\ \A n \in Names(src) : ContainsExt(n) => EndsInGz(n)

\* The name of matched file n without the relax extension and ".gz".
BaseName(n) == SubSeq(n, 1, Len(n) - Len(relax_ext) - 1)

\* C5 as stated: after a call that returned normally on a source whose files
\* of the last relaxation are suffixed and gzipped, every copied file is in
\* the destination under its base name, decompressed, and no name the call
\* has left in the destination contains the relax extension or ends in ".gz"
\* (files that were there before the call and that it did not touch aside).
C5_AsStated ==
    (pc = "done" /\ SuffixedAndGzipped)
        => /\ \A n \in Matched :
                /\ BaseName(n) \in Names(dst)
                /\ dst[BaseName(n)] = decompress(src[n])
           /\ \A m \in Names(dst) :
                (ContainsExt(m) \/ EndsInGz(m))
                    => m \in Names(dstStart) /\ dst[m] = dstStart[m]

\* The name under which the call leaves the file of base name b.
FinalName(b) == IF b = CONTCAR /\ c2p THEN POSCAR ELSE b

\* C5, amended: after such a call every copied file is in the destination,
\* decompressed, under its base name, except that CONTCAR is there as POSCAR
\* when contcar_to_poscar is set; and every name of the destination that
\* contains the relax extension or ends in ".gz" is a file the destination
\* held before the call, untouched.
C5_SuffixAndGzipRemoved ==
    (pc = "done" /\ SuffixedAndGzipped)
        => /\ \A n \in Matched :
                /\ FinalName(BaseName(n)) \in Names(dst)
                /\ dst[FinalName(BaseName(n))] = decompress(src[n])
           /\ \A m \in Names(dst) :
                (ContainsExt(m) \/ EndsInGz(m))
                    => m \in Names(dstStart) /\ dst[m] = dstStart[m]

\* A suffixed, gzipped additional file has arrived under its base name.
C5_Witness ==
    /\ pc = "done"
    /\ SuffixedAndGzipped
    /\ add = <<WAVECAR>>
    /\ WAVECAR \in Names(dst)
    /\ dst[WAVECAR] = [data |-> WAVECAR \o relax_ext \o <<GzTok>>, z |-> 0]
    /\ VASPRUN \in Names(dst)

-----------------------------------------------------------------------------
(* C6 *)

NoMatchingGz(d) ==
    LET patterns == gunzip_include(add, relax_ext)
    IN  \A n \in Names(d) :
            EndsInGz(n) => \A i \in 1..Len(patterns) : ~GlobMatch(patterns[i], n)

-----------------------------------------------------------------------------
(* C7 *)

\* File n of the source belongs to a relaxation stage below the highest one.
LowerStage(n) ==
    /\ IntegersAfterRelax(n) # {}
    /\ \A k \in IntegersAfterRelax(n) : k < LargestInteger

\* C7: in no state of a call does the destination hold content that comes
\* from a file of the source of a lower relaxation stage.
C7_OnlyHighestStageCopied ==
    \A m \in Names(dst) :
        dst[m].data \in Names(src) => ~LowerStage(dst[m].data)

\* A call on a source with files of several stages has returned normally with
\* a file of the highest stage in the destination.
C7_Witness ==
    /\ pc = "done"
    /\ \E n \in Names(src) : LowerStage(n)
    /\ INCAR \in Names(dst)
    /\ dst[INCAR].data \in Names(src)
    /\ IntegersAfterRelax(dst[INCAR].data) = {LargestInteger}
    /\ LargestInteger >= 10

-----------------------------------------------------------------------------
(* C8 *)

\* The steps of a complete call, in order.
FixedOrder ==
    <<"resolve", "copy_required", "copy_optional", "check_potcar", "gunzip">>
        \o (IF relax_ext # <<>> THEN <<"rename_relax">> ELSE <<>>)
        \o (IF c2p THEN <<"contcar_to_poscar">> ELSE <<>>)

\* C8: the steps a call has performed are an initial part of: resolver, copy
\* of the required files, copy of the optional files, POTCAR check, gunzip,
\* relax rename (nonempty extension only), CONTCAR-to-POSCAR rename (when
\* requested); a call that returned normally has performed them all, and a
\* call in progress is at the step that follows the ones performed.
C8_FixedStepOrder ==
    /\ IsPrefix(trace, FixedOrder)
    /\ pc = "done" => trace = FixedOrder
    /\ ~Terminal => (Len(trace) < Len(FixedOrder) /\ pc = FixedOrder[Len(trace) + 1])

\* A call has performed all seven steps.
C8_Witness ==
    /\ pc = "done"
    /\ Len(trace) = 7
    /\ trace[6] = "rename_relax"

-----------------------------------------------------------------------------
(* C9 *)

LaterSteps == {"gunzip", "rename_relax", "contcar_to_poscar"}

\* C9: when a call has failed in the copy of the required files or in the
\* POTCAR check, the failing step is the last one performed, none of gunzip
\* and the two renames has been performed, every file of the destination is
\* either as it was when the call started or a copy of the source file of
\* the same name; after a missing-POTCAR failure the destination holds every
\* matched file of the source under the name and with the content it has in
\* the source.
C9_FailureStopsAndKeepsCopies ==
    (pc = "failed" /\ err \in {"CopyError", "MissingPotcar"})
        => /\ trace[Len(trace)] = (IF err = "CopyError" THEN "copy_required"
                                                        ELSE "check_potcar")
           /\ \A i \in 1..Len(trace) : trace[i] \notin LaterSteps
           /\ \A m \in Names(dst) :
                \/ m \in Names(dstStart) /\ dst[m] = dstStart[m]
                \/ m \in Names(src) /\ dst[m] = src[m]
           /\ err = "MissingPotcar" => dst = CopiedImage

\* A call has failed for want of a POTCAR and the destination holds a
\* required file still suffixed and gzipped.
C9_Witness ==
    /\ pc = "failed"
    /\ err = "MissingPotcar"
    /\ relax_ext # <<>>
    /\ CONTCAR \o relax_ext \o <<GzTok>> \in Names(dst)
    /\ dst[CONTCAR \o relax_ext \o <<GzTok>>].z = 1

====
